---------------------------- MODULE Spec2Model ----------------------------
(***************************************************************************)
(* Model of the Salesforce MCP gateway (src/src/index.ts) and of the       *)
(* search / fetch tool handlers (src/src/tools/search-fetch.ts).           *)
(*                                                                         *)
(*   Spec      the call-tool dispatcher, one request at a time, over the   *)
(*             whole argument space of every tool                          *)
(*   SpecHttp  the HTTP surface: concurrent POST /mcp requests sharing the *)
(*             module-level server, GET and DELETE /mcp                    *)
(*   SpecTools the handlers handleSearch and handleFetch (both versions)   *)
(*             against a backend connection                                *)
(*   SpecRepeat fetches by identifier repeated against the backend         *)
(***************************************************************************)
EXTENDS Integers, Sequences, FiniteSets, TLC

(***************************************************************************)
(* Bounds of the model.                                                    *)
(***************************************************************************)
\* connections the factory hands out before the model stops taking requests
MaxConns == 3
\* POST /mcp requests (transports created) in one behaviour
MaxPosts == 3
\* entries of objectIds in one fetch request (objectIds version)
MaxIds == 2

(***************************************************************************)
(* JavaScript values, as far as the dispatcher inspects them.              *)
(***************************************************************************)
Undef == [t |-> "undefined"]
Str(s) == [t |-> "string", s |-> s]
Num(n) == [t |-> "number", n |-> n]
Bool(b) == [t |-> "boolean", b |-> b]
Arr(a) == [t |-> "array", a |-> a]
Obj(o) == [t |-> "object", o |-> o]

\* ToBoolean, as applied by `!x` and `a && b`
Truthy(v) ==
  CASE v.t = "undefined" -> FALSE
    [] v.t = "string" -> v.s # ""
    [] v.t = "number" -> v.n # 0
    [] v.t = "boolean" -> v.b
    [] v.t = "array" -> TRUE
    [] v.t = "object" -> TRUE

\* Array.isArray
IsArray(v) == v.t = "array"

\* property read v[k]; reading a property of undefined is a TypeError,
\* modelled by the caller (see CanRead)
Prop(v, k) == IF v.t = "object" /\ k \in DOMAIN v.o THEN v.o[k] ELSE Undef
CanRead(v) == v.t # "undefined"


(***************************************************************************)
(* The tools the dispatcher's switch knows (index.ts, the case labels),    *)
(* and per tool the keys its validation reads.                             *)
(***************************************************************************)
RegisteredTools ==
  { "salesforce_search_objects", "salesforce_describe_object",
    "salesforce_query_records", "salesforce_aggregate_query",
    "salesforce_dml_records", "salesforce_manage_object",
    "salesforce_manage_field", "salesforce_manage_field_permissions",
    "salesforce_search_all", "salesforce_read_apex", "salesforce_write_apex",
    "salesforce_read_apex_trigger", "salesforce_write_apex_trigger",
    "salesforce_execute_anonymous", "salesforce_manage_debug_logs" }

\* keys a case rejects when falsy (`!x.key`)
TruthyKeys(name) ==
  CASE name = "salesforce_search_objects" -> {"searchPattern"}
    [] name = "salesforce_describe_object" -> {"objectName"}
    [] name = "salesforce_query_records" -> {"objectName"}
    [] name = "salesforce_aggregate_query" -> {"objectName"}
    [] name = "salesforce_dml_records" -> {"operation", "objectName"}
    [] name = "salesforce_manage_object" -> {"operation", "objectName"}
    [] name = "salesforce_manage_field" -> {"operation", "objectName", "fieldName"}
    [] name = "salesforce_manage_field_permissions" -> {"operation", "objectName", "fieldName"}
    [] name = "salesforce_search_all" -> {"searchTerm"}
    [] name = "salesforce_write_apex" -> {"operation", "className", "body"}
    [] name = "salesforce_write_apex_trigger" -> {"operation", "triggerName", "body"}
    [] name = "salesforce_execute_anonymous" -> {"apexCode"}
    [] name = "salesforce_manage_debug_logs" -> {"operation", "username"}
    [] OTHER -> {}

\* keys a case rejects unless Array.isArray
ArrayKeys(name) ==
  CASE name = "salesforce_query_records" -> {"fields"}
    [] name = "salesforce_aggregate_query" -> {"selectFields", "groupByFields"}
    [] name = "salesforce_dml_records" -> {"records"}
    [] name = "salesforce_search_all" -> {"objects"}
    [] OTHER -> {}

\* keys a case copies into the handler's arguments without any check
\* (those of them the model follows)
UncheckedKeys(name) ==
  CASE name = "salesforce_query_records" -> {"limit"}
    [] name = "salesforce_read_apex" -> {"className"}
    [] name = "salesforce_read_apex_trigger" -> {"triggerName"}
    [] OTHER -> {}

\* the keys the dispatcher names in its "... required" messages
RequiredKeys(name) == TruthyKeys(name) \cup ArrayKeys(name)

Keys(name) == RequiredKeys(name) \cup UncheckedKeys(name)

\* the type each key is cast to (`as string`, `as string[]`, `as number`)
DeclaredType(name, k) ==
  CASE k \in {"fields", "selectFields", "groupByFields"} -> "string[]"
    [] k \in {"records", "objects"} -> "object[]"
    [] k = "limit" -> "number"
    [] OTHER -> "string"

\* whether a runtime value is of a declared type
HasType(v, ty) ==
  CASE ty = "string" -> v.t = "string"
    [] ty = "number" -> v.t = "number"
    [] ty = "string[]" ->
         v.t = "array" /\ \A i \in 1..Len(v.a) : v.a[i].t = "string"
    [] ty = "object[]" ->
         v.t = "array" /\ \A i \in 1..Len(v.a) : v.a[i].t = "object"

\* the handler a case calls
HandlerOf(name) ==
  CASE name = "salesforce_search_objects" -> "handleSearchObjects"
    [] name = "salesforce_describe_object" -> "handleDescribeObject"
    [] name = "salesforce_query_records" -> "handleQueryRecords"
    [] name = "salesforce_aggregate_query" -> "handleAggregateQuery"
    [] name = "salesforce_dml_records" -> "handleDMLRecords"
    [] name = "salesforce_manage_object" -> "handleManageObject"
    [] name = "salesforce_manage_field" -> "handleManageField"
    [] name = "salesforce_manage_field_permissions" -> "handleManageFieldPermissions"
    [] name = "salesforce_search_all" -> "handleSearchAll"
    [] name = "salesforce_read_apex" -> "handleReadApex"
    [] name = "salesforce_write_apex" -> "handleWriteApex"
    [] name = "salesforce_read_apex_trigger" -> "handleReadApexTrigger"
    [] name = "salesforce_write_apex_trigger" -> "handleWriteApexTrigger"
    [] name = "salesforce_execute_anonymous" -> "handleExecuteAnonymous"
    [] name = "salesforce_manage_debug_logs" -> "handleManageDebugLogs"

\* the message of the Error a case throws when its check fails
RequiredMsg(name) ==
  CASE name = "salesforce_search_objects" -> "searchPattern is required"
    [] name = "salesforce_describe_object" -> "objectName is required"
    [] name = "salesforce_query_records" -> "objectName and fields array are required for query"
    [] name = "salesforce_aggregate_query" -> "objectName, selectFields array, and groupByFields array are required for aggregate query"
    [] name = "salesforce_dml_records" -> "operation, objectName, and records array are required for DML"
    [] name = "salesforce_manage_object" -> "operation and objectName are required for object management"
    [] name = "salesforce_manage_field" -> "operation, objectName, and fieldName are required for field management"
    [] name = "salesforce_manage_field_permissions" -> "operation, objectName, and fieldName are required for field permissions management"
    [] name = "salesforce_search_all" -> "searchTerm and objects array are required for search"
    [] name = "salesforce_write_apex" -> "operation, className, and body are required for writing Apex"
    [] name = "salesforce_write_apex_trigger" -> "operation, triggerName, and body are required for writing Apex trigger"
    [] name = "salesforce_execute_anonymous" -> "apexCode is required for executing anonymous Apex"
    [] name = "salesforce_manage_debug_logs" -> "operation and username are required for managing debug logs"
    [] OTHER -> ""

(***************************************************************************)
(* Outcomes of a block of code: it returns an envelope, throws, or calls a *)
(* handler (whose promise settles later).                                  *)
(***************************************************************************)
Envelope(isError, text) == [isError |-> isError, text |-> text]
Return(env) == [kind |-> "return", env |-> env]
Throw(msg) == [kind |-> "throw", msg |-> msg]
Invoke(handler, vargs) == [kind |-> "invoke", handler |-> handler, vargs |-> vargs]
Await == [kind |-> "await"]

\* index.ts 68-71: the destructuring, the `!args` check, and the call of the
\* connection factory
BeforeAcquire(args) ==
  IF ~Truthy(args) THEN Throw("Arguments are required") ELSE Await

\* the check at the head of a case
PassesCheckPresence(name, args) ==
  /\ \A k \in TruthyKeys(name) : Prop(args, k) # Undef
  /\ \A k \in ArrayKeys(name) : IsArray(Prop(args, k))
PassesCheck(name, args) ==
  /\ \A k \in TruthyKeys(name) : Truthy(Prop(args, k))
  /\ \A k \in ArrayKeys(name) : IsArray(Prop(args, k))

\* index.ts 204-207: objects.every(obj => obj.name && Array.isArray(obj.fields))
ObjectsReadable(objects) == \A i \in 1..Len(objects.a) : CanRead(objects.a[i])
EveryObjectOk(objects) ==
  \A i \in 1..Len(objects.a) :
     Truthy(Prop(objects.a[i], "name")) /\ IsArray(Prop(objects.a[i], "fields"))

\* the validatedArgs literal: the casts do nothing at run time, the values
\* are copied as they are
ValidatedArgs(name, args) == [k \in Keys(name) |-> Prop(args, k)]

\* index.ts 73-329: the switch over the tool name
Switch(name, args) ==
  IF name \notin RegisteredTools
    THEN Return(Envelope(TRUE, "Unknown tool: " \o name))
  ELSE IF ~PassesCheck(name, args)
    THEN Throw(RequiredMsg(name))
  ELSE IF name = "salesforce_search_all" /\ ~ObjectsReadable(Prop(args, "objects"))
    THEN Throw("Cannot read properties of undefined (reading 'name')")
  ELSE IF name = "salesforce_search_all" /\ ~EveryObjectOk(Prop(args, "objects"))
    THEN Throw("Each object must specify name and fields array")
  ELSE Invoke(HandlerOf(name), ValidatedArgs(name, args))

\* index.ts 67, 330-338: the try / catch around the whole handler
TryCatchRethrows(out) == out
TryCatch(out) ==
  IF out.kind = "throw"
    THEN Return(Envelope(TRUE, "Error: " \o out.msg))
    ELSE out

(***************************************************************************)
(* The requests the model sends.                                           *)
(***************************************************************************)
\* names the switch has no case for; search and fetch are the tools of
\* tools/search-fetch.ts, which index.ts neither imports nor dispatches
UnknownTools == {"search", "fetch", "salesforce_no_such_tool"}
ToolNames == RegisteredTools \cup UnknownTools

ScalarValues == {Undef, Str(""), Str("x"), Num(42)}
StringArrayValues == {Undef, Str("Id"), Arr(<<>>), Arr(<<Str("Id")>>), Arr(<<Num(1)>>)}
RecordArrayValues == {Undef, Str("x"), Arr(<<>>), Arr(<<Obj([Name |-> Str("x")])>>)}
SearchObjectValues ==
  { Undef, Str("Account"), Arr(<<>>),
    Arr(<<Obj([name |-> Str("Account"), fields |-> Arr(<<Str("Id")>>)])>>),
    Arr(<<Obj([name |-> Str("Account")])>>),
    Arr(<<Obj([name |-> Str(""), fields |-> Arr(<<Str("Id")>>)])>>),
    Arr(<<Obj([name |-> Str("Account"), fields |-> Str("Id")])>>),
    Arr(<<Str("Account")>>),
    Arr(<<Undef>>) }
LimitValues == {Undef, Num(10), Str("10")}

Candidates(k) ==
  CASE k \in {"fields", "selectFields", "groupByFields"} -> StringArrayValues
    [] k = "records" -> RecordArrayValues
    [] k = "objects" -> SearchObjectValues
    [] k = "limit" -> LimitValues
    [] OTHER -> ScalarValues

AllValues ==
  ScalarValues \cup StringArrayValues \cup RecordArrayValues
    \cup SearchObjectValues \cup LimitValues

\* the argument objects sent for a tool; a key mapped to undefined is a key
\* the request leaves out
ArgObjects(name) ==
  { Obj(f) : f \in { g \in [Keys(name) -> AllValues] :
                        \A k \in Keys(name) : g[k] \in Candidates(k) } }

\* request.params of a tools/call request; arguments may be absent
InputsOf(names) ==
  UNION { { [name |-> n, args |-> a] : a \in {Undef} \cup ArgObjects(n) } : n \in names }

Inputs == InputsOf(ToolNames)

\* the requests sent over HTTP while two of them are in flight
HttpInputs ==
  { [name |-> "salesforce_describe_object", args |-> Undef],
    [name |-> "salesforce_describe_object", args |-> Obj([objectName |-> Undef])],
    [name |-> "salesforce_describe_object", args |-> Obj([objectName |-> Str("x")])],
    [name |-> "salesforce_no_such_tool", args |-> Obj(<<>>)] }

NoRequest == [name |-> "", args |-> Undef]

(***************************************************************************)
(* The handlers of index.ts's imports (tools/*.ts) and the connection      *)
(* factory (utils/connection.ts) are outside the modelled files: a handler *)
(* settles in any way a promise can, the factory resolves with a new       *)
(* connection or rejects.                                                  *)
(***************************************************************************)
HandlerOutcomes ==
  { Return(Envelope(FALSE, "handler result")),
    Return(Envelope(TRUE, "handler error")),
    Throw("backend error") }

ConnectionErrorMsg == "connection failed"

\* createSalesforceConnection(): the n-th call yields connection n
FactoryConnection(n) == n

\* index.ts 71: `const conn = await createSalesforceConnection()`, a binding
\* local to the request
BindConnCached(fresh, latest) == IF latest # 0 THEN latest ELSE fresh
BindConn(fresh, latest) == fresh

(***************************************************************************)
(* tools/search-fetch.ts: text.  A string the code inspects character by   *)
(* character is a sequence of one-character strings; Text gives the text   *)
(* it contributes to a query.                                              *)
(***************************************************************************)
\* the characters /^[a-zA-Z0-9]+$/ accepts
AlnumChars ==
  {
    "a", "b", "c", "d", "e", "f", "g", "h", "i", "j", "k", "l", "m", "n",
    "o", "p", "q", "r", "s", "t", "u", "v", "w", "x", "y", "z", "A", "B",
    "C", "D", "E", "F", "G", "H", "I", "J", "K", "L", "M", "N", "O", "P",
    "Q", "R", "S", "T", "U", "V", "W", "X", "Y", "Z", "0", "1", "2", "3",
    "4", "5", "6", "7", "8", "9"
  }

\* the characters String.prototype.trim removes, among those the model sends
WhiteSpace == {" ", "\t", "\n"}

RECURSIVE TrimStart(_)
TrimStart(s) ==
  IF s # <<>> /\ Head(s) \in WhiteSpace THEN TrimStart(Tail(s)) ELSE s

RECURSIVE TrimEnd(_)
TrimEnd(s) ==
  IF s # <<>> /\ s[Len(s)] \in WhiteSpace THEN TrimEnd(SubSeq(s, 1, Len(s) - 1)) ELSE s

\* String.prototype.trim
Trim(s) == TrimEnd(TrimStart(s))

\* the characters of a string, as text
RECURSIVE Text(_)
Text(s) == IF s = <<>> THEN "" ELSE Head(s) \o Text(Tail(s))

\* Array.prototype.join
RECURSIVE Join(_, _)
Join(xs, sep) ==
  IF xs = <<>> THEN ""
  ELSE IF Len(xs) = 1 THEN xs[1]
  ELSE xs[1] \o sep \o Join(Tail(xs), sep)

\* a string argument whose characters the handlers inspect
QStr(c) == [t |-> "string", c |-> c]

\* `!query` for an argument of a handler
QFalsy(q) ==
  CASE q.t = "undefined" -> TRUE
    [] q.t = "string" -> q.c = <<>>
    [] q.t = "number" -> q.n = 0
    [] OTHER -> FALSE

\* search-fetch.ts 63-88: validateRecordId
validateRecordIdLengthOnly(recordId) ==
  IF QFalsy(recordId) \/ recordId.t # "string"
    THEN [isValid |-> FALSE, error |-> "Record ID is required and must be a string"]
  ELSE IF Len(Trim(recordId.c)) # 15 /\ Len(Trim(recordId.c)) # 18
    THEN [isValid |-> FALSE, error |-> "Record ID must be either 15 or 18 characters long"]
  ELSE [isValid |-> TRUE, error |-> ""]
validateRecordId(recordId) ==
  IF QFalsy(recordId) \/ recordId.t # "string"
    THEN [isValid |-> FALSE, error |-> "Record ID is required and must be a string"]
  ELSE IF Len(Trim(recordId.c)) # 15 /\ Len(Trim(recordId.c)) # 18
    THEN [isValid |-> FALSE, error |-> "Record ID must be either 15 or 18 characters long"]
  ELSE IF ~(\A i \in 1..Len(Trim(recordId.c)) : Trim(recordId.c)[i] \in AlnumChars)
    THEN [isValid |-> FALSE,
          error |-> "Record ID contains invalid characters. Only alphanumeric characters are allowed"]
  ELSE [isValid |-> TRUE, error |-> ""]

\* search-fetch.ts 98-110: prefixMap
prefixMap ==
  [p \in {"001", "003", "00Q", "006", "500", "00T", "00U", "005", "00G", "01Z", "00O"} |->
     CASE p = "001" -> "Account"
       [] p = "003" -> "Contact"
       [] p = "00Q" -> "Lead"
       [] p = "006" -> "Opportunity"
       [] p = "500" -> "Case"
       [] p = "00T" -> "Task"
       [] p = "00U" -> "Event"
       [] p = "005" -> "User"
       [] p = "00G" -> "Group"
       [] p = "01Z" -> "Dashboard"
       [] p = "00O" -> "Report"]

\* String.prototype.substring(0, n)
Substring0(s, n) == SubSeq(s, 1, IF Len(s) < n THEN Len(s) ELSE n)

\* search-fetch.ts 93-113: getObjectTypeFromId, of the characters of an id
getObjectTypeFromId(recordId) ==
  LET prefix == Text(Substring0(recordId, 3)) IN
    IF prefix \in DOMAIN prefixMap THEN prefixMap[prefix] ELSE "Unknown"

\* search-fetch.ts 122-129: objectSpecificFields
objectSpecificFields ==
  [o \in {"Account", "Contact", "Lead", "Opportunity", "Case", "User"} |->
     CASE o = "Account" -> <<"Industry", "Phone", "Website", "BillingCity">>
       [] o = "Contact" -> <<"Email", "Phone", "Account.Name", "Title">>
       [] o = "Lead" -> <<"Email", "Phone", "Company", "Status">>
       [] o = "Opportunity" -> <<"Account.Name", "StageName", "Amount", "CloseDate">>
       [] o = "Case" -> <<"Subject", "Status", "Priority", "Contact.Name">>
       [] o = "User" -> <<"Email", "Username", "Profile.Name", "IsActive">>]

\* search-fetch.ts 118-142: getDefaultFields
getDefaultFieldsSpecificFirst(objectType, includeSystemFields) ==
  LET baseFields == <<"Id", "Name">>
      systemFields == <<"CreatedDate", "LastModifiedDate", "CreatedById", "LastModifiedById">>
      specific == IF objectType \in DOMAIN objectSpecificFields
                    THEN objectSpecificFields[objectType] ELSE <<>>
  IN specific \o baseFields \o (IF includeSystemFields THEN systemFields ELSE <<>>)
getDefaultFields(objectType, includeSystemFields) ==
  LET baseFields == <<"Id", "Name">>
      systemFields == <<"CreatedDate", "LastModifiedDate", "CreatedById", "LastModifiedById">>
      specific == IF objectType \in DOMAIN objectSpecificFields
                    THEN objectSpecificFields[objectType] ELSE <<>>
  IN baseFields \o specific \o (IF includeSystemFields THEN systemFields ELSE <<>>)

\* search-fetch.ts 155-156, 260-261
searchObjects == <<"Account", "Contact", "Lead", "Opportunity">>
searchFields == <<"Id", "Name">>

\* searchObjects.map(obj => `${obj}(${searchFields.join(', ')})`)
objectClauses == [i \in 1..Len(searchObjects) |->
                    searchObjects[i] \o "(" \o Join(searchFields, ", ") \o ")"]

\* `${query}` of a handler argument
Interpolate(q) ==
  CASE q.t = "string" -> Text(q.c)
    [] q.t = "undefined" -> "undefined"

\* search-fetch.ts 159-166: the SOSL text handleSearch builds
SearchSoslNoLimit(query) ==
  "FIND {" \o Interpolate(query) \o "*} IN ALL FIELDS RETURNING "
    \o Join(objectClauses, ", ")
SearchSosl(query) ==
  "FIND {" \o Interpolate(query) \o "*} IN ALL FIELDS RETURNING "
    \o Join(objectClauses, ", ") \o " LIMIT 200"

\* search-fetch.ts 263: the SOSL text handleFetch builds
FetchSosl(query) ==
  "FIND {" \o Interpolate(query) \o "*} IN ALL FIELDS RETURNING "
    \o Join(objectClauses, ", ") \o " LIMIT 5"

\* search-fetch.ts 238, 274, 553: the SOQL text of a record query
RecordSoql(objectType, idText) ==
  "SELECT " \o Join(getDefaultFields(objectType, FALSE), ", ") \o " FROM "
    \o objectType \o " WHERE Id = '" \o idText \o "'"

(***************************************************************************)
(* The backend behind a connection.  What conn.query and conn.search       *)
(* answer is the backend's choice; it may change between any two calls.    *)
(***************************************************************************)
\* object groups in a search answer, and records in each group
MaxGroups == 2
MaxPer == 3

BackendStates ==
  { b \in [query : {"throw", "none", "found"}, searchFails : BOOLEAN,
           groups : 0..MaxGroups, per : 0..MaxPer] :
      /\ b.searchFails => b.groups = 0
      /\ b.groups = 0 => b.per = 0 }

BackendErrorMsg == "backend error"

\* what conn.query(soql) settles with for a query of the record idText
QueryAnswer(b, idText) ==
  [threw |-> b.query = "throw",
   records |-> IF b.query = "found" THEN <<[Id |-> idText, Name |-> "Acme"]>> ELSE <<>>]

SearchId(i, j) ==
  <<"001", "003", "00Q", "006">>[i] \o "00000000000" \o <<"1", "2", "3", "4", "5">>[j]

\* what conn.search(sosl) settles with: one group per searched object
SearchAnswer(b) ==
  [threw |-> b.searchFails,
   groups |-> [i \in 1..b.groups |->
                 [records |-> [j \in 1..b.per |->
                    [Id |-> SearchId(i, j), Name |-> "Acme", type |-> searchObjects[i]]]]]]

(***************************************************************************)
(* tools/search-fetch.ts: the handlers.                                    *)
(***************************************************************************)
\* the envelope of a handler: content[0].text is JSON.stringify of an
\* object with the key `key` (documents or results) and, on an error path,
\* the key error
HEnvelope(isError, key, items, error) ==
  [isError |-> isError, key |-> key, items |-> items, error |-> error]
NoError == <<>>

BackendCall(op, text) == [op |-> op, text |-> text]

\* search-fetch.ts 235-241, 270-275, 550-556: a record query: the object
\* type, the field list getDefaultFields gave for it, and the text rendered
\* from them that conn.query is called with
QueryCall(objectType, idText) ==
  [op |-> "query", text |-> RecordSoql(objectType, idText),
   objectType |-> objectType, id |-> idText,
   fieldsToFetch |-> getDefaultFields(objectType, FALSE)]

\* search-fetch.ts 244-252, 279-287, 559-567: the document of a record
DocumentOf(record, objectType) ==
  [id |-> record.Id,
   title |-> IF record.Name # "" THEN record.Name ELSE objectType \o " Record",
   content |-> record,
   metadata |-> [type |-> objectType, url |-> "salesforce://record/" \o record.Id]]

\* search-fetch.ts 175-180: the result of a search record
SearchResultOf(record) ==
  [id |-> record.Id,
   title |-> IF record.Name # "" THEN record.Name ELSE record.type \o " Record",
   text |-> record.type \o ": " \o (IF record.Name # "" THEN record.Name ELSE record.Id),
   url |-> "salesforce://record/" \o record.Id]

\* search-fetch.ts 269: records.slice(0, 2)
SliceAll(records) == records
Slice2(records) == SubSeq(records, 1, IF Len(records) < 2 THEN Len(records) ELSE 2)

\* the records the loops of search-fetch.ts 267-269 visit, in order
RECURSIVE DetailRecords(_)
DetailRecords(groups) ==
  IF groups = <<>> THEN <<>>
  ELSE Slice2(Head(groups).records) \o DetailRecords(Tail(groups))

\* the records the loops of search-fetch.ts 172-174 visit, in order
RECURSIVE AllRecords(_)
AllRecords(groups) ==
  IF groups = <<>> THEN <<>>
  ELSE Head(groups).records \o AllRecords(Tail(groups))

\* search-fetch.ts 210-238, 259-265: handleFetch (query version) up to its
\* first await, or to its return when it makes no call
FetchStart(query) ==
  IF QFalsy(query) \/ Trim(query.c) = <<>>
    THEN [pc |-> "returned", calls |-> <<>>, pending |-> <<>>,
          result |-> <<HEnvelope(TRUE, "documents", <<>>, <<"No query provided">>)>>]
  ELSE IF Len(Trim(query.c)) = 15 \/ Len(Trim(query.c)) = 18
    THEN IF validateRecordId(QStr(Trim(query.c))).isValid
           THEN [pc |-> "fetchQuery",
                 calls |-> <<QueryCall(getObjectTypeFromId(Trim(query.c)),
                                       Text(Trim(query.c)))>>,
                 result |-> <<>>, pending |-> <<>>]
           ELSE [pc |-> "returned", calls |-> <<>>, pending |-> <<>>,
                 result |-> <<HEnvelope(FALSE, "documents", <<>>, NoError)>>]
  ELSE [pc |-> "fetchSearch",
        calls |-> <<BackendCall("search", FetchSosl(query))>>,
        result |-> <<>>, pending |-> <<>>]

\* search-fetch.ts 241-256, 296-302: the record query of an id settles
FetchQuerySettled(query, answer) ==
  IF answer.threw \/ answer.records = <<>>
    THEN HEnvelope(FALSE, "documents", <<>>, NoError)
    ELSE HEnvelope(FALSE, "documents",
           <<DocumentOf(answer.records[1], getObjectTypeFromId(Trim(query.c)))>>, NoError)

\* search-fetch.ts 192-203, 304-315, 510-521, 582-593: the outer catch
OuterCatch(key, msg) == HEnvelope(TRUE, key, <<>>, <<msg>>)

(***************************************************************************)
(* State.                                                                  *)
(***************************************************************************)
AllReqs == {1, 2}
DispatchReqs == {1}

VARIABLES
  pc,          \* per request: where the call-tool handler is
  req,         \* per request: request.params
  conn,        \* per request: the connection bound to `conn` (0: none)
  nextConn,    \* connections the factory has handed out
  acquires,    \* per request: calls of createSalesforceConnection
  invoked,     \* per request: the handler calls made, with their arguments
  envelopes,   \* per request: the envelopes the handler returned
  escaped,     \* per request: an exception left the handler
  threw,       \* per request: an error was thrown at some step
  http,        \* per request: the POST's req/res pair: none, open, closed
  transportOf, \* per request: the transport created for it (0: none)
  nextTransport, \* transports created so far
  closedT,     \* transports closed
  server,      \* the module-level Server: the transport it is connected to
  transports,  \* the session map
  reply,       \* the last answer an Express handler wrote itself
  hpc,         \* where the running tool handler is
  hfn,         \* the tool handler running
  harg,        \* its argument (args of a search; args.query, args.objectIds)
  documents,   \* its `documents`
  pending,     \* what its loop has still to visit
  calls,       \* the backend calls it has issued, in order
  raised,      \* a backend call of this execution raised
  searchResults, \* the groups its search returned
  hresult,     \* the envelopes it returned
  backend,     \* what the backend answers at present
  last         \* the fetch by identifier answered before: its argument, the
               \* backend that answered it, its calls and its envelope

dispVars == <<pc, req, conn, nextConn, acquires, invoked, envelopes, escaped, threw>>
httpVars == <<http, transportOf, nextTransport, closedT, server, transports, reply>>

toolVars ==
  <<hpc, hfn, harg, documents, pending, calls, raised, searchResults, hresult, backend, last>>

\* no fetch by identifier was answered yet
NoFetch ==
  [arg |-> Undef, backend |-> [query |-> "none", searchFails |-> FALSE, groups |-> 0, per |-> 0],
   calls |-> <<>>, result |-> <<>>, again |-> FALSE]

NoReply == [method |-> "", sid |-> "", status |-> 0, message |-> "", routedTo |-> 0]

(***************************************************************************)
(* Init: the process after start-up, no request received.                  *)
(***************************************************************************)
Init ==
  /\ pc = [r \in AllReqs |-> "idle"]
  /\ req = [r \in AllReqs |-> NoRequest]
  /\ conn = [r \in AllReqs |-> 0]
  /\ nextConn = 0
  /\ acquires = [r \in AllReqs |-> 0]
  /\ invoked = [r \in AllReqs |-> <<>>]
  /\ envelopes = [r \in AllReqs |-> <<>>]
  /\ escaped = [r \in AllReqs |-> FALSE]
  /\ threw = [r \in AllReqs |-> FALSE]
  /\ http = [r \in AllReqs |-> "none"]
  /\ transportOf = [r \in AllReqs |-> 0]
  /\ nextTransport = 0
  /\ closedT = {}
  /\ server = [transport |-> 0]
  /\ transports = <<>>
  /\ reply = NoReply
  /\ hpc = "idle"
  /\ hfn = ""
  /\ harg = Undef
  /\ documents = <<>>
  /\ pending = <<>>
  /\ calls = <<>>
  /\ raised = FALSE
  /\ searchResults = <<>>
  /\ hresult = <<>>
  /\ backend = [query |-> "none", searchFails |-> FALSE, groups |-> 0, per |-> 0]
  /\ last = NoFetch

(***************************************************************************)
(* The call-tool request handler (index.ts 66-339).                        *)
(***************************************************************************)
\* the handler's promise settles with `out`: the try / catch turns a throw
\* into an envelope, anything it lets through leaves the handler
Settle(r, out) ==
  LET res == TryCatch(out) IN
    /\ threw' = [threw EXCEPT ![r] = @ \/ out.kind = "throw"]
    /\ envelopes' =
         [envelopes EXCEPT ![r] = IF res.kind = "return" THEN Append(@, res.env) ELSE @]
    /\ escaped' = [escaped EXCEPT ![r] = @ \/ res.kind = "throw"]
    /\ pc' = [pc EXCEPT ![r] = "done"]

\* index.ts 66-71: the handler runs up to its first await
Deliver(r, inp) ==
  /\ pc[r] = "idle"
  /\ nextConn < MaxConns
  /\ req' = [req EXCEPT ![r] = inp]
  /\ IF BeforeAcquire(inp.args).kind = "await"
       THEN /\ pc' = [pc EXCEPT ![r] = "acquiring"]
            /\ acquires' = [acquires EXCEPT ![r] = @ + 1]
            /\ UNCHANGED <<envelopes, escaped, threw>>
       ELSE /\ Settle(r, BeforeAcquire(inp.args))
            /\ UNCHANGED acquires
  /\ UNCHANGED <<conn, nextConn, invoked>>

\* index.ts 71-329: createSalesforceConnection() resolves, the switch runs
\* up to the handler call
AcquireOk(r) ==
  /\ pc[r] = "acquiring"
  /\ nextConn' = nextConn + 1
  /\ conn' = [conn EXCEPT ![r] = BindConn(FactoryConnection(nextConn + 1), nextConn)]
  /\ LET out == Switch(req[r].name, req[r].args) IN
       IF out.kind = "invoke"
         THEN /\ invoked' = [invoked EXCEPT ![r] = Append(@, [handler |-> out.handler, args |-> out.vargs])]
              /\ pc' = [pc EXCEPT ![r] = "running"]
              /\ UNCHANGED <<envelopes, escaped, threw>>
         ELSE /\ Settle(r, out)
              /\ UNCHANGED invoked
  /\ UNCHANGED <<req, acquires>>

\* index.ts 71, 330-338: createSalesforceConnection() rejects
AcquireFails(r) ==
  /\ pc[r] = "acquiring"
  /\ Settle(r, Throw(ConnectionErrorMsg))
  /\ UNCHANGED <<req, conn, nextConn, acquires, invoked>>

\* index.ts `return await handleX(conn, ...)`: the handler's promise settles
HandlerSettles(r, out) ==
  /\ pc[r] = "running"
  /\ Settle(r, out)
  /\ UNCHANGED <<req, conn, nextConn, acquires, invoked>>

\* the request and everything it owned is dropped once it is answered
Forget(r) ==
  /\ pc[r] = "done"
  /\ pc' = [pc EXCEPT ![r] = "idle"]
  /\ req' = [req EXCEPT ![r] = NoRequest]
  /\ conn' = [conn EXCEPT ![r] = 0]
  /\ acquires' = [acquires EXCEPT ![r] = 0]
  /\ invoked' = [invoked EXCEPT ![r] = <<>>]
  /\ envelopes' = [envelopes EXCEPT ![r] = <<>>]
  /\ escaped' = [escaped EXCEPT ![r] = FALSE]
  /\ threw' = [threw EXCEPT ![r] = FALSE]
  /\ UNCHANGED nextConn

CallTool(r) == \E inp \in Inputs : Deliver(r, inp) /\ UNCHANGED <<httpVars, toolVars>>
Acquired(r) == AcquireOk(r) /\ UNCHANGED <<httpVars, toolVars>>
AcquireRejected(r) == AcquireFails(r) /\ UNCHANGED <<httpVars, toolVars>>
HandlerDone(r) == \E out \in HandlerOutcomes : HandlerSettles(r, out) /\ UNCHANGED <<httpVars, toolVars>>
RequestDone(r) == Forget(r) /\ UNCHANGED <<httpVars, toolVars>>

vars == <<dispVars, httpVars, toolVars>>

Next ==
  \E r \in DispatchReqs :
    \/ CallTool(r)
    \/ Acquired(r)
    \/ AcquireRejected(r)
    \/ HandlerDone(r)
    \/ RequestDone(r)

Spec == Init /\ [][Next]_vars

(***************************************************************************)
(* The HTTP surface (index.ts 341-419).                                    *)
(***************************************************************************)
\* values of the mcp-session-id header; "" is a request without it
SessionIds == {"", "s1", "s2"}

\* the one Server of the process (index.ts 33-43) is the handle every
\* request is bound to
ServerHandleOf(r) == "server"

\* Server.connect(transport): the server takes the transport as its current
\* one; the transport's onclose is wired to the server
ServerConnect(srv, t) == [srv EXCEPT !.transport = t]

\* index.ts 358: transport.close() closes the transport and runs its
\* onclose, which disconnects the server it was connected to
TransportClose(st, t) ==
  [closed |-> st.closed \cup {t}, server |-> [st.server EXCEPT !.transport = 0]]

\* index.ts 359: server.close() closes the transport the server is
\* connected to, if any
ServerClose(st) ==
  IF st.server.transport # 0
    THEN [closed |-> st.closed \cup {st.server.transport},
          server |-> [st.server EXCEPT !.transport = 0]]
    ELSE st

\* index.ts 356-360: the listener of the response's close event
OnResClose(st, t) == ServerClose(TransportClose(st, t))

\* index.ts 353-362: what POST /mcp does to the session map when it has
\* created transport t: the transport has no session id generator
\* (sessionIdGenerator: undefined) and the route assigns nothing to
\* `transports`
RegisterKeyed(map, t) == [s \in DOMAIN map \cup {"s1"} |-> t]
Register(map, t) == map

\* index.ts 347-362: POST /mcp carrying a tools/call request: a new
\* transport, the close listener, server.connect, transport.handleRequest
\* (which runs the call-tool handler up to its first await)
Post(r) ==
  /\ http[r] = "none"
  /\ nextTransport < MaxPosts
  /\ nextTransport' = nextTransport + 1
  /\ transportOf' = [transportOf EXCEPT ![r] = nextTransport + 1]
  /\ http' = [http EXCEPT ![r] = "open"]
  /\ server' = ServerConnect(server, nextTransport + 1)
  /\ transports' = Register(transports, nextTransport + 1)
  /\ \E inp \in HttpInputs : Deliver(r, inp)
  /\ UNCHANGED <<closedT, reply, toolVars>>

\* index.ts 363-375: connect or handleRequest throws before anything was
\* written: the route answers 500 itself
PostFails(r) ==
  /\ http[r] = "none"
  /\ pc[r] = "idle"
  /\ nextTransport < MaxPosts
  /\ nextTransport' = nextTransport + 1
  /\ transportOf' = [transportOf EXCEPT ![r] = nextTransport + 1]
  /\ http' = [http EXCEPT ![r] = "open"]
  /\ server' = ServerConnect(server, nextTransport + 1)
  /\ reply' = [method |-> "POST", sid |-> "", status |-> 500,
               message |-> "Internal server error", routedTo |-> 0]
  /\ transports' = Register(transports, nextTransport + 1)
  /\ UNCHANGED <<closedT, dispVars, toolVars>>

\* index.ts 356-360: the response of request r closes
ResClose(r) ==
  /\ http[r] = "open"
  /\ http' = [http EXCEPT ![r] = "closed"]
  /\ LET st == OnResClose([closed |-> closedT, server |-> server], transportOf[r]) IN
       /\ closedT' = st.closed
       /\ server' = st.server
  /\ UNCHANGED <<transportOf, nextTransport, transports, reply, dispVars, toolVars>>

\* the request is over: its response is closed and its handler has settled
EndRequest(r) ==
  /\ http[r] = "closed"
  /\ pc[r] \in {"idle", "done"}
  /\ http' = [http EXCEPT ![r] = "none"]
  /\ transportOf' = [transportOf EXCEPT ![r] = 0]
  /\ pc' = [pc EXCEPT ![r] = "idle"]
  /\ req' = [req EXCEPT ![r] = NoRequest]
  /\ conn' = [conn EXCEPT ![r] = 0]
  /\ acquires' = [acquires EXCEPT ![r] = 0]
  /\ invoked' = [invoked EXCEPT ![r] = <<>>]
  /\ envelopes' = [envelopes EXCEPT ![r] = <<>>]
  /\ escaped' = [escaped EXCEPT ![r] = FALSE]
  /\ threw' = [threw EXCEPT ![r] = FALSE]
  /\ UNCHANGED <<nextConn, nextTransport, closedT, server, transports, reply, toolVars>>

\* index.ts 379-389, 392-402: the first handler registered for GET and for
\* DELETE answers 405 and does not call next()
MethodNotAllowed(method, sid) ==
  [reply |-> [method |-> method, sid |-> sid, status |-> 405,
              message |-> "Method not allowed.", routedTo |-> 0],
   next |-> FALSE]

\* index.ts 404-413: handleSessionRequest
HandleSessionRequest(method, sid, map) ==
  IF sid = "" \/ sid \notin DOMAIN map
    THEN [reply |-> [method |-> method, sid |-> sid, status |-> 400,
                     message |-> "Invalid or missing session ID", routedTo |-> 0],
          next |-> FALSE]
    ELSE [reply |-> [method |-> method, sid |-> sid, status |-> 200,
                     message |-> "", routedTo |-> map[sid]],
          next |-> FALSE]

\* the handlers registered on '/mcp' for a method, in registration order
\* (index.ts 379 then 416 for GET, 392 then 419 for DELETE)
RoutesSessionFirst(method) == <<"handleSessionRequest", "methodNotAllowed">>
Routes(method) == <<"methodNotAllowed", "handleSessionRequest">>

RunHandler(h, method, sid, map) ==
  IF h = "methodNotAllowed"
    THEN MethodNotAllowed(method, sid)
    ELSE HandleSessionRequest(method, sid, map)

\* Express runs a route's handlers in order; the next one runs only when
\* the one before it calls next()
RECURSIVE RunRoute(_, _, _, _)
RunRoute(hs, method, sid, map) ==
  LET res == RunHandler(Head(hs), method, sid, map) IN
    IF res.next /\ Len(hs) > 1
      THEN RunRoute(Tail(hs), method, sid, map)
      ELSE res.reply

\* GET /mcp or DELETE /mcp with any mcp-session-id header
SessionRequest(method, sid) ==
  /\ reply' = RunRoute(Routes(method), method, sid, transports)
  /\ UNCHANGED <<http, transportOf, nextTransport, closedT, server, transports, dispVars, toolVars>>

Get == \E sid \in SessionIds : SessionRequest("GET", sid)
Delete == \E sid \in SessionIds : SessionRequest("DELETE", sid)

NextHttp ==
  \/ \E r \in AllReqs :
       \/ Post(r)
       \/ PostFails(r)
       \/ Acquired(r)
       \/ AcquireRejected(r)
       \/ HandlerDone(r)
       \/ ResClose(r)
       \/ EndRequest(r)
  \/ Get
  \/ Delete

SpecHttp == Init /\ [][NextHttp]_vars

(***************************************************************************)
(* The tool handlers of tools/search-fetch.ts, one execution at a time.    *)
(***************************************************************************)
RECURSIVE Rep(_, _)
Rep(c, n) == IF n = 0 THEN <<>> ELSE <<c>> \o Rep(c, n - 1)

IdPrefixes ==
  { <<"0", "0", "1">>, <<"0", "0", "3">>, <<"5", "0", "0">>, <<"0", "0", "T">>,
    <<"a", "0", "B">> }

\* texts shaped like record ids: a prefix, a filler, a last character that
\* may be a quote, blanks around them; of 15 and 18 characters and of
\* lengths next to these
IdLikeTexts ==
  { Rep(" ", l) \o p \o Rep("A", n - 4) \o <<final>> \o Rep(" ", t) :
      p \in IdPrefixes, n \in {15, 18}, final \in {"A", "'"}, l \in 0..1, t \in 0..1 }
  \cup
  { <<"0", "0", "1">> \o Rep("A", 13), <<" ">> \o <<"0", "0", "1">> \o Rep("A", 11) }

PlainTexts == { <<>>, <<" ">>, <<"A", "c", "m", "e">>, <<" ", "A", "c", "m", "e">> }

\* args.query of a fetch or search request
FetchQueries == {Undef} \cup { QStr(c) : c \in IdLikeTexts \cup PlainTexts }
SearchQueries == {Undef} \cup { QStr(c) : c \in PlainTexts }

\* the arguments of a search request: objects with the key query, and
\* objects with the keys searchTerm, objects and fields
SearchRequests ==
  { Obj(<<>>) }
  \cup { Obj([query |-> q]) : q \in SearchQueries \ {Undef} }
  \cup { Obj([searchTerm |-> QStr(<<"A", "c", "m", "e">>), objects |-> Arr(os), fields |-> Arr(fs)]) :
            os \in {<<"Account">>, <<"Contact", "Account">>},
            fs \in {<<"Id", "Name">>, <<"Name">>} }
  \cup { Obj([query |-> QStr(<<"A", "c", "m", "e">>), searchTerm |-> QStr(<<"X">>),
               objects |-> Arr(<<"Account">>), fields |-> Arr(<<"Id", "Name">>)]) }

SampleIds ==
  { <<"0", "0", "1">> \o Rep("A", 12),
    <<" ">> \o <<"a", "0", "B">> \o Rep("A", 15) }

\* args.objectIds of a fetch request (objectIds version)
IdLists ==
  {Undef} \cup { Arr(ids) : ids \in UNION { [1..n -> SampleIds] : n \in 0..MaxIds } }

\* a handler is called: everything of the execution before it is gone
\* (search-fetch.ts 229, 545: `documents` is a new array in every call)
BeginKeepingDocuments(fn, arg, st) ==
  /\ hpc = "idle"
  /\ hfn' = fn
  /\ harg' = arg
  /\ hpc' = st.pc
  /\ calls' = st.calls
  /\ hresult' = st.result
  /\ pending' = st.pending
  /\ UNCHANGED documents
  /\ raised' = FALSE
  /\ searchResults' = <<>>
  /\ UNCHANGED <<backend, dispVars, httpVars, last>>

Begin(fn, arg, st) ==
  /\ hpc = "idle"
  /\ hfn' = fn
  /\ harg' = arg
  /\ hpc' = st.pc
  /\ calls' = st.calls
  /\ hresult' = st.result
  /\ pending' = st.pending
  /\ documents' = <<>>
  /\ raised' = FALSE
  /\ searchResults' = <<>>
  /\ UNCHANGED <<backend, dispVars, httpVars, last>>

\* search-fetch.ts 147-168: handleSearch up to its await
SearchStart(query) ==
  [pc |-> "search", calls |-> <<BackendCall("search", SearchSosl(query))>>,
   result |-> <<>>, pending |-> <<>>]

\* search-fetch.ts 168-203: conn.search settles
SearchSettled(answer) ==
  IF answer.threw
    THEN OuterCatch("results", BackendErrorMsg)
    ELSE HEnvelope(FALSE, "results",
           [i \in 1..Len(AllRecords(answer.groups)) |->
              SearchResultOf(AllRecords(answer.groups)[i])], NoError)

\* search-fetch.ts 147-149: `const { query } = args`
CallSearch ==
  \E args \in SearchRequests :
     Begin("handleSearch", args, SearchStart(Prop(args, "query")))

SearchReplies ==
  /\ hpc = "search"
  /\ raised' = SearchAnswer(backend).threw
  /\ searchResults' = SearchAnswer(backend).groups
  /\ hresult' = <<SearchSettled(SearchAnswer(backend))>>
  /\ hpc' = "returned"
  /\ UNCHANGED <<hfn, harg, documents, pending, calls, backend, dispVars, httpVars, last>>

CallFetch ==
  \E q \in FetchQueries :
     Begin("handleFetch", q, FetchStart(q))

\* search-fetch.ts 241-257, 296-302: the record query of an id settles:
\* its document, if any, is pushed onto `documents`, which is returned
QueryReplied ==
  /\ hpc = "fetchQuery"
  /\ LET answer == QueryAnswer(backend, Text(Trim(harg.c)))
         docs == documents \o FetchQuerySettled(harg, answer).items
     IN /\ raised' = answer.threw
        /\ documents' = docs
        /\ hresult' = <<HEnvelope(FALSE, "documents", docs, NoError)>>
  /\ hpc' = "returned"
  /\ UNCHANGED <<hfn, harg, pending, calls, searchResults, backend, dispVars, httpVars>>

FetchQueryReplies == QueryReplied /\ UNCHANGED last

\* search-fetch.ts 265, 304-315: conn.search of handleFetch rejects
FetchSearchFails ==
  /\ hpc = "fetchSearch"
  /\ SearchAnswer(backend).threw
  /\ raised' = TRUE
  /\ hresult' = <<OuterCatch("documents", BackendErrorMsg)>>
  /\ hpc' = "returned"
  /\ UNCHANGED <<hfn, harg, documents, pending, calls, searchResults, backend, dispVars, httpVars, last>>

\* a loop over records goes on with the records `rest`: it issues the
\* query `nextCall` of the next one and awaits it at `awaitPc`, or ends and
\* the handler returns its documents (search-fetch.ts 296-302, 574-580)
LoopOn(rest, docs, nextCall, awaitPc) ==
  /\ pending' = rest
  /\ documents' = docs
  /\ IF rest = <<>>
       THEN /\ hresult' = <<HEnvelope(FALSE, "documents", docs, NoError)>>
            /\ hpc' = "returned"
            /\ UNCHANGED calls
       ELSE /\ calls' = Append(calls, nextCall)
            /\ hpc' = awaitPc
            /\ UNCHANGED hresult

\* search-fetch.ts 270-275: the query of the details of a search record
DetailCall(rest) ==
  IF rest = <<>> THEN BackendCall("", "")
  ELSE QueryCall(rest[1].type, rest[1].Id)

\* search-fetch.ts 549-556: the query of an entry of objectIds
IdCall(rest) ==
  IF rest = <<>> THEN BackendCall("", "")
  ELSE QueryCall(getObjectTypeFromId(Trim(rest[1])), Text(Trim(rest[1])))

\* search-fetch.ts 265-275: conn.search of handleFetch resolves
FetchSearchReplies ==
  /\ hpc = "fetchSearch"
  /\ ~SearchAnswer(backend).threw
  /\ searchResults' = SearchAnswer(backend).groups
  /\ LoopOn(DetailRecords(SearchAnswer(backend).groups), documents,
            DetailCall(DetailRecords(SearchAnswer(backend).groups)), "fetchDetail")
  /\ UNCHANGED <<hfn, harg, raised, backend, dispVars, httpVars, last>>

\* search-fetch.ts 273-291: the query of one record's details settles; a
\* rejection is logged and dropped
FetchDetailReplies ==
  /\ hpc = "fetchDetail"
  /\ LET answer == QueryAnswer(backend, pending[1].Id) IN
       /\ raised' = (raised \/ answer.threw)
       /\ LoopOn(Tail(pending),
                 IF ~answer.threw /\ answer.records # <<>>
                   THEN Append(documents, DocumentOf(answer.records[1], pending[1].type))
                   ELSE documents,
                 DetailCall(Tail(pending)), "fetchDetail")
  /\ UNCHANGED <<hfn, harg, searchResults, backend, dispVars, httpVars, last>>

\* search-fetch.ts 528-556: handleFetch (objectIds version) up to its first
\* await, or to its return when it makes no call
IdsStart(objectIds) ==
  IF objectIds.t = "undefined" \/ objectIds.a = <<>>
    THEN [pc |-> "returned", calls |-> <<>>, pending |-> <<>>,
          result |-> <<HEnvelope(TRUE, "documents", <<>>, <<"No object IDs provided">>)>>]
    ELSE [pc |-> "idsQuery", calls |-> <<IdCall(objectIds.a)>>, pending |-> objectIds.a,
          result |-> <<>>]

CallFetchIds == \E ids \in IdLists : Begin("handleFetchIds", ids, IdsStart(ids))

\* search-fetch.ts 555-572: the query of one entry settles; a rejection is
\* logged and dropped
IdsQueryReplies ==
  /\ hpc = "idsQuery"
  /\ LET answer == QueryAnswer(backend, Text(Trim(pending[1]))) IN
       /\ raised' = (raised \/ answer.threw)
       /\ LoopOn(Tail(pending),
                 IF ~answer.threw /\ answer.records # <<>>
                   THEN Append(documents,
                          DocumentOf(answer.records[1], getObjectTypeFromId(Trim(pending[1]))))
                   ELSE documents,
                 IdCall(Tail(pending)), "idsQuery")
  /\ UNCHANGED <<hfn, harg, searchResults, backend, dispVars, httpVars, last>>

\* the caller has the handler's envelope; the arrays of the execution stay
\* as they are until a later call makes its own
ToolDone ==
  /\ hpc = "returned"
  /\ hpc' = "idle"
  /\ hfn' = ""
  /\ harg' = Undef
  /\ pending' = <<>>
  /\ calls' = <<>>
  /\ raised' = FALSE
  /\ searchResults' = <<>>
  /\ hresult' = <<>>
  /\ UNCHANGED <<documents, backend, dispVars, httpVars, last>>

\* the backend's data or health changes: what it answers to record queries,
\* or what it answers to searches
BackendChanges ==
  /\ \E b \in BackendStates \ {backend} :
        /\ \/ b.query = backend.query
           \/ <<b.searchFails, b.groups, b.per>> =
                <<backend.searchFails, backend.groups, backend.per>>
        /\ backend' = b
  /\ UNCHANGED <<hpc, hfn, harg, documents, pending, calls, raised, searchResults, hresult,
                 dispVars, httpVars, last>>

NextTools ==
  \/ CallSearch
  \/ SearchReplies
  \/ CallFetch
  \/ FetchQueryReplies
  \/ FetchSearchFails
  \/ FetchSearchReplies
  \/ FetchDetailReplies
  \/ CallFetchIds
  \/ IdsQueryReplies
  \/ ToolDone
  \/ BackendChanges

SpecTools == Init /\ [][NextTools]_vars

(***************************************************************************)
(* The same fetch by identifier, issued again: handleFetch (query version) *)
(* on record identifiers, each answered execution remembered in `last`.    *)
(***************************************************************************)
\* args.query of the repeated requests: identifiers of mapped and unmapped
\* prefix, of 15 and 18 characters, padded, and one that is not valid
RepeatQueries ==
  { QStr(<<"0", "0", "1">> \o Rep("A", 12)),
    QStr(<<" ">> \o <<"0", "0", "3">> \o Rep("A", 12) \o <<" ">>),
    QStr(<<"a", "0", "B">> \o Rep("A", 15)),
    QStr(<<"0", "0", "1">> \o Rep("A", 11) \o <<"'">>) }

CallFetchAgain == \E q \in RepeatQueries : Begin("handleFetch", q, FetchStart(q))

\* the record query settles; the execution is remembered, and whether it
\* repeated the one before it against the same backend
FetchQueryRepliesAgain ==
  /\ QueryReplied
  /\ last' = [arg |-> harg, backend |-> backend, calls |-> calls, result |-> hresult',
              again |-> (last.arg = harg /\ last.backend = backend)]

NextRepeat ==
  \/ CallFetchAgain
  \/ FetchQueryRepliesAgain
  \/ ToolDone
  \/ BackendChanges

SpecRepeat == Init /\ [][NextRepeat]_vars

(***************************************************************************)
(* Properties.                                                             *)
(***************************************************************************)
IsErrorEnvelope(r) == Len(envelopes[r]) = 1 /\ envelopes[r][1].isError

\* C1: for every tool-call request the dispatcher returns exactly one
\* envelope and lets no exception escape; an error thrown at any step of
\* the request ends in an envelope with isError = true.
C1_OneEnvelopeNoEscape ==
  \A r \in AllReqs :
    /\ ~escaped[r]
    /\ pc[r] = "done" => Len(envelopes[r]) = 1
    /\ pc[r] # "done" => envelopes[r] = <<>>
    /\ threw[r] => pc[r] = "done" /\ IsErrorEnvelope(r)

\* a handler was called and its promise rejected; the request ended with
\* the one error envelope
C1_Witness ==
  /\ pc[1] = "done"
  /\ invoked[1] # <<>>
  /\ threw[1]
  /\ envelopes[1] = <<Envelope(TRUE, "Error: backend error")>>

\* the arguments of a request for a registered tool do not pass validation
FailsValidation(rq) ==
  /\ rq.name \in RegisteredTools
  /\ \/ BeforeAcquire(rq.args).kind = "throw"
     \/ Switch(rq.name, rq.args).kind = "throw"

\* C2: a request whose arguments fail validation ends with an isError
\* envelope, and in its whole handling no backend connection is acquired:
\* validation comes before connection acquisition.
C2_ValidationBeforeConnection ==
  \A r \in AllReqs :
    FailsValidation(req[r]) =>
      /\ acquires[r] = 0
      /\ conn[r] = 0
      /\ pc[r] = "done" => IsErrorEnvelope(r)

\* C3: a request whose tool name is not registered, whatever its arguments
\* (present or absent), gets the isError envelope with the "unknown tool"
\* payload, and no backend connection is attempted for it.
C3_UnknownToolShortCircuits ==
  \A r \in AllReqs :
    req[r].name \in UnknownTools =>
      /\ acquires[r] = 0
      /\ pc[r] = "done" =>
           envelopes[r] = <<Envelope(TRUE, "Unknown tool: " \o req[r].name)>>

\* request r is being served: its response is open
InFlight(r) == http[r] = "open"

\* C4: the release done when one POST's connection closes touches only that
\* request: with two POSTs in flight, the close of one neither closes the
\* other's transport nor disconnects the server handle serving the other.
C4_CloseTouchesOnlyItsRequest ==
  [][\A r, o \in AllReqs :
       (r # o /\ InFlight(r) /\ InFlight(o) /\ http'[r] = "closed") =>
          /\ (transportOf[o] \in closedT') = (transportOf[o] \in closedT)
          /\ server.transport = transportOf[o] => server'.transport = transportOf[o]]_vars

\* C5: whenever a backend call made by a handler raises, the envelope the
\* handler returns has isError = true and an error payload; for every
\* handler, search and fetch included.
C5_BackendErrorIsError ==
  (hpc = "returned" /\ raised) =>
     /\ hresult[1].isError
     /\ hresult[1].error # NoError

\* a value that is absent or empty: undefined, the empty string, the empty
\* array
AbsentOrEmpty(v) == v = Undef \/ v = Str("") \/ v = Arr(<<>>)
AbsentOrEmptyString(v) == v = Undef \/ v = Str("")

\* the request fails validation: no handler is called for it and its
\* envelope is an error
Rejected(r) ==
  /\ invoked[r] = <<>>
  /\ pc[r] # "running"
  /\ pc[r] = "done" => IsErrorEnvelope(r)

\* C6 (as claimed): a request in which a required key is absent or empty
\* fails validation: the handler is not invoked and the envelope is an error.
C6_AbsentOrEmptyFails ==
  \A r \in AllReqs :
    (\E k \in RequiredKeys(req[r].name) : AbsentOrEmpty(Prop(req[r].args, k)))
       => Rejected(r)

\* C6 (amended): a request in which a required key is absent or is the
\* empty string fails validation: the handler is not invoked and the
\* envelope is an error.  (An empty array for a required array key passes.)
C6_AbsentOrEmptyStringFails ==
  \A r \in AllReqs :
    (\E k \in RequiredKeys(req[r].name) : AbsentOrEmptyString(Prop(req[r].args, k)))
       => Rejected(r)

\* a connection was acquired, the case's check ran on an empty-string
\* required key, threw, and the request ended with the case's message
C6_Witness ==
  /\ pc[1] = "done"
  /\ req[1].name = "salesforce_write_apex"
  /\ Prop(req[1].args, "operation") = Str("x")
  /\ Prop(req[1].args, "className") = Str("x")
  /\ Prop(req[1].args, "body") = Str("")
  /\ conn[1] # 0
  /\ invoked[1] = <<>>
  /\ envelopes[1] =
       <<Envelope(TRUE, "Error: operation, className, and body are required for writing Apex")>>

\* C7: a request in which a declared field has a runtime type other than
\* its declared one fails validation and its handler is never invoked.
C7_TypeMismatchFails ==
  \A r \in AllReqs :
    (\E k \in Keys(req[r].name) :
        /\ Prop(req[r].args, k) # Undef
        /\ ~HasType(Prop(req[r].args, k), DeclaredType(req[r].name, k)))
       => Rejected(r)

\* the backend calls of an execution after its first
LaterCalls == SubSeq(calls, 2, Len(calls))

C9_OwnConnectionNoRetry ==
  \A r \in AllReqs :
    /\ acquires[r] <= 1
    /\ (pc[r] = "running" \/ invoked[r] # <<>>) => (acquires[r] = 1 /\ conn[r] # 0)
    /\ \A o \in AllReqs \ {r} : conn[r] # 0 => conn[o] # conn[r]
    /\ (pc[r] = "done" /\ acquires[r] = 1 /\ conn[r] = 0) =>
          envelopes[r] = <<Envelope(TRUE, "Error: " \o ConnectionErrorMsg)>>

\* two requests in flight, one executing on its connection, the other
\* ended by a failed acquisition, and a third connection handed out before
C9_Witness ==
  /\ pc[1] = "running" /\ conn[1] = 2 /\ acquires[1] = 1
  /\ pc[2] = "done" /\ conn[2] = 0 /\ acquires[2] = 1
  /\ InFlight(1) /\ InFlight(2)

\* C10: every GET /mcp and every DELETE /mcp, whatever mcp-session-id it
\* carries, is answered with the "method not allowed" error and is not
\* routed to a transport.
C10_GetDeleteNotAllowed ==
  reply.method \in {"GET", "DELETE"} =>
     /\ reply.status = 405
     /\ reply.message = "Method not allowed."
     /\ reply.routedTo = 0

\* a DELETE carrying a session id was answered 405 while a POST was open
C10_Witness ==
  /\ reply.method = "DELETE"
  /\ reply.sid = "s1"
  /\ reply.status = 405
  /\ InFlight(1)

\* C11: in stateless mode the session map holds no entry after any sequence
\* of requests: no POST, GET or DELETE, completed or failed, leaves a
\* transport registered in the map.
C11_SessionMapEmpty == DOMAIN transports = {}

\* two POSTs were received, one answered 500 by the route itself, one whose
\* response has closed, and a DELETE carrying a session id was answered;
\* the map is empty
C11_Witness ==
  /\ nextTransport >= 2
  /\ closedT # {}
  /\ \E r \in AllReqs : http[r] = "closed" /\ pc[r] = "done"
  /\ reply.method = "DELETE" /\ reply.sid = "s1"
  /\ transports = <<>>

\* the query text the claim describes for a request naming a search term,
\* target objects and fields
RequestedSosl(args) ==
  "FIND {" \o Interpolate(Prop(args, "searchTerm")) \o "*} IN ALL FIELDS RETURNING "
    \o Join([i \in 1..Len(Prop(args, "objects").a) |->
               Prop(args, "objects").a[i] \o "("
                 \o Join(Prop(args, "fields").a, ", ") \o ")"], ", ")

\* C13 (as claimed): the search query text is built from the request's
\* arguments: the term wrapped as FIND {term*}, then one RETURNING clause per
\* requested object, in the requested order, each listing the requested
\* fields; {searchTerm: "Acme", objects: ["Account"], fields: ["Id", "Name"]}
\* builds exactly FIND {Acme*} IN ALL FIELDS RETURNING Account(Id, Name).
C13_QueryFromRequestedObjects ==
  (hfn = "handleSearch" /\ calls # <<>> /\ Prop(harg, "searchTerm") # Undef) =>
     /\ calls[1].text = RequestedSosl(harg)
     /\ harg = Obj([searchTerm |-> QStr(<<"A", "c", "m", "e">>),
                    objects |-> Arr(<<"Account">>), fields |-> Arr(<<"Id", "Name">>)])
          => calls[1].text = "FIND {Acme*} IN ALL FIELDS RETURNING Account(Id, Name)"

\* C13 (amended): the search query text is built from the request's query
\* argument alone: the query wrapped as FIND {query*} (an absent query as
\* the text undefined), then one RETURNING clause for each of Account,
\* Contact, Lead and Opportunity, in this order, each listing Id and Name,
\* then LIMIT 200; so search with {query: "Acme"} builds exactly
\* FIND {Acme*} IN ALL FIELDS RETURNING Account(Id, Name), Contact(Id, Name),
\* Lead(Id, Name), Opportunity(Id, Name) LIMIT 200.
C13_QueryFromQueryOverDefaults ==
  (hfn = "handleSearch" /\ hpc # "idle") =>
     /\ Len(calls) = 1
     /\ calls[1].op = "search"
     /\ calls[1].text =
          "FIND {" \o Interpolate(Prop(harg, "query"))
            \o "*} IN ALL FIELDS RETURNING Account(Id, Name), Contact(Id, Name), "
            \o "Lead(Id, Name), Opportunity(Id, Name) LIMIT 200"
     /\ Prop(harg, "query") = QStr(<<"A", "c", "m", "e">>) =>
          calls[1].text =
            "FIND {Acme*} IN ALL FIELDS RETURNING Account(Id, Name), Contact(Id, Name), Lead(Id, Name), Opportunity(Id, Name) LIMIT 200"

\* a search with {query: "Acme"} has issued its search and returned
C13_Witness ==
  /\ hfn = "handleSearch"
  /\ hpc = "returned"
  /\ harg = Obj([query |-> QStr(<<"A", "c", "m", "e">>)])
  /\ Len(calls) = 1
  /\ ~hresult[1].isError

\* the argument of a fetch is a record identifier: 15 or 18 alphanumeric
\* characters once trimmed
IsRecordId(q) ==
  /\ q.t = "string"
  /\ Len(Trim(q.c)) \in {15, 18}
  /\ \A i \in 1..Len(Trim(q.c)) : Trim(q.c)[i] \in AlnumChars

\* the 3-character prefix of the identifier a fetch was given
PrefixOf(q) == Text(SubSeq(Trim(q.c), 1, 3))

\* C14: a fetch by record identifier makes a backend type-lookup call before
\* building the record query if and only if the identifier's 3-character
\* prefix is not in the prefix map: an identifier with prefix 001 is queried
\* as an Account with no lookup, an identifier with an unmapped prefix
\* causes a lookup call first and the record query after it.
C14_TypeLookupIffUnmapped ==
  (hfn = "handleFetch" /\ hpc = "returned" /\ IsRecordId(harg)) =>
     /\ IF PrefixOf(harg) \in DOMAIN prefixMap
          THEN Len(calls) = 1 /\ calls[1].op = "query"
          ELSE Len(calls) = 2 /\ calls[1].op # "query" /\ calls[2].op = "query"
     /\ PrefixOf(harg) = "001" =>
          calls[1].text =
            "SELECT Id, Name, Industry, Phone, Website, BillingCity FROM Account WHERE Id = '"
              \o Text(Trim(harg.c)) \o "'"

\* the envelope of a fetch by identifier that matched no record: completed,
\* with no document
NotFoundEnvelope == HEnvelope(FALSE, "documents", <<>>, NoError)

\* the record query of a fetch by identifier settled without raising and
\* matched nothing
MatchedNothing == ~raised /\ documents = <<>>

\* C15: a fetch by identifier that matches zero records ends as a completed
\* envelope (isError = false), and that envelope differs from the one the
\* same request gets when its backend call raises.
C15_NotFoundDistinctFromError ==
  (hfn = "handleFetch" /\ hpc = "returned" /\ IsRecordId(harg)) =>
     /\ MatchedNothing => hresult = <<NotFoundEnvelope>>
     /\ raised => hresult # <<NotFoundEnvelope>>

\* the object types a record query can be built for: those of the prefix
\* map, its placeholder, those with specific fields, those searched
ObjectTypes ==
  { prefixMap[p] : p \in DOMAIN prefixMap } \cup {"Unknown"}
    \cup DOMAIN objectSpecificFields
    \cup { searchObjects[i] : i \in 1..Len(searchObjects) }

\* a list without its repetitions, first occurrences kept in order
RECURSIVE Dedup(_)
Dedup(fs) ==
  IF fs = <<>> THEN <<>>
  ELSE LET init == Dedup(SubSeq(fs, 1, Len(fs) - 1)) IN
         IF \E i \in 1..Len(init) : init[i] = fs[Len(fs)]
           THEN init ELSE Append(init, fs[Len(fs)])

\* each field once, in first-occurrence order, the identifier field first
IdFirstNoRepeat(fs) == fs # <<>> /\ fs[1] = "Id" /\ Dedup(fs) = fs

\* C16: in every query the builder renders, for every object type and every
\* choice of includeSystemFields, the field list contains each field exactly
\* once, in first-occurrence order, with the identifier field Id present and
\* first; every record query issued is rendered from such a list.
C16_FieldListIdFirstNoRepeat ==
  /\ \A o \in ObjectTypes, b \in BOOLEAN : IdFirstNoRepeat(getDefaultFields(o, b))
  /\ \A i \in 1..Len(calls) :
       calls[i].op = "query" =>
         /\ IdFirstNoRepeat(calls[i].fieldsToFetch)
         /\ calls[i].text =
              "SELECT " \o Join(calls[i].fieldsToFetch, ", ") \o " FROM "
                \o calls[i].objectType \o " WHERE Id = '" \o calls[i].id \o "'"

\* a fetch searched and issued record queries for an Account and for a
\* Contact, each with the six fields of its type
C16_Witness ==
  /\ hfn = "handleFetch"
  /\ Len(calls) >= 4
  /\ calls[2].op = "query" /\ calls[2].objectType = "Account"
  /\ calls[2].fieldsToFetch = <<"Id", "Name", "Industry", "Phone", "Website", "BillingCity">>
  /\ calls[4].op = "query" /\ calls[4].objectType = "Contact"
  /\ Len(calls[4].fieldsToFetch) = 6

\* the argument of a fetch is absent, empty or only white space
Blank(q) == q.t = "undefined" \/ (q.t = "string" /\ Trim(q.c) = <<>>)

\* the argument of a fetch is a text of 15 or 18 characters once trimmed
IdLength(q) == q.t = "string" /\ Len(Trim(q.c)) \in {15, 18}

\* the call is a record query with the caller's trimmed text between the
\* quotes of WHERE Id = '...'
HasCallerTextAsId(c, q) ==
  /\ c.op = "query"
  /\ \E o \in ObjectTypes :
        c.text = "SELECT " \o Join(getDefaultFields(o, FALSE), ", ") \o " FROM " \o o
                   \o " WHERE Id = '" \o Text(Trim(q.c)) \o "'"

\* C18: in handleFetch (query version) a record query with the caller's
\* text inside WHERE Id = '...' is issued only when the trimmed text is 15
\* or 18 characters long and purely alphanumeric; a text of 15 or 18
\* characters with any other character causes no backend call and returns
\* {documents: []} with isError = false; an empty or white-space-only text
\* returns isError = true with no backend call.
C18_CallerTextQueriedOnlyIfValid ==
  hfn = "handleFetch" =>
     /\ \A i \in 1..Len(calls) : HasCallerTextAsId(calls[i], harg) => IsRecordId(harg)
     /\ (IdLength(harg) /\ ~IsRecordId(harg)) =>
          /\ hpc = "returned"
          /\ calls = <<>>
          /\ hresult = <<HEnvelope(FALSE, "documents", <<>>, NoError)>>
     /\ Blank(harg) =>
          /\ hpc = "returned"
          /\ calls = <<>>
          /\ Len(hresult) = 1 /\ hresult[1].isError /\ hresult[1].items = <<>>

\* a fetch of 15 characters ending in a quote returned no document, no
\* error, and made no backend call
C18_Witness ==
  /\ hfn = "handleFetch"
  /\ hpc = "returned"
  /\ harg = QStr(<<"0", "0", "1">> \o Rep("A", 11) \o <<"'">>)
  /\ calls = <<>>
  /\ hresult = <<HEnvelope(FALSE, "documents", <<>>, NoError)>>

\* C17: issuing the same fetch-by-identifier request twice against an
\* unchanged backend yields two equal envelopes, and the query text built
\* for the two requests is identical: when the record query of a request
\* settles and the request before it had the same argument and was answered
\* by the same backend, the envelope and the calls equal the ones before.
C17_SameRequestSameEnvelope ==
  [][(hpc = "fetchQuery" /\ hpc' = "returned" /\ last.arg = harg /\ last.backend = backend)
       => (hresult' = last.result /\ calls = last.calls)]_vars

\* a fetch of an identifier returned its document for the second time in a
\* row, the backend being the same
C17_Witness ==
  /\ hfn = "handleFetch"
  /\ hpc = "returned"
  /\ last.again
  /\ last.arg = harg
  /\ hresult = last.result
  /\ hresult[1].items # <<>>
  /\ calls # <<>>

=============================================================================
